---- MODULE Spec2Model ----
(***************************************************************************)
(* Bear's JSON compilation database (rust/src/compilation/database.rs):    *)
(* Entry and its equality/hash, the generic on-disk record, the shell-word *)
(* codec used for the string form of a command, and Database::load/save    *)
(* over one backing file.                                                  *)
(*                                                                         *)
(* A string is a sequence of characters (one-character TLA+ strings); a    *)
(* command is a sequence of strings; Option<T> is a sequence of length at  *)
(* most one.                                                               *)
(***************************************************************************)
EXTENDS Integers, Sequences, FiniteSets, TLC

\* ------------------------------------------------------------------------
\* Bounds
\* ------------------------------------------------------------------------

\* Weight of the inputs a behaviour starts from (an entry set or a document):
\* one per entry/record, one per character and per token of its command, one
\* per irregular field.
MaxSize == 4

\* ------------------------------------------------------------------------
\* Characters and strings
\* ------------------------------------------------------------------------

\* One safe character, the two white-space characters, the two quotes and
\* the backslash.
Chars == {"a", " ", "\n", "'", "\"", "\\"}

None == <<>>
Some(x) == <<x>>

RECURSIVE JoinWith(_, _)
\* [T]::join(sep) / Vec<String>::join(sep).
JoinWith(ss, sep) ==
    IF ss = <<>> THEN <<>>
    ELSE IF Len(ss) = 1 THEN ss[1]
    ELSE ss[1] \o sep \o JoinWith(Tail(ss), sep)


\* ------------------------------------------------------------------------
\* shellwords::split
\*   MAIN_PATTERN =
\*   \s*(?:([^\s\\'"]+)|'([^']*)'|"((?:[^"\\]|\\.)*)"|(\\.?)|(\S))(\s|\z)?
\* ------------------------------------------------------------------------

\* \s
IsSpace(c) == c \in {" ", "\n"}

\* [^\s\\'"]
IsPlain(c) == ~IsSpace(c) /\ c \notin {"\\", "'", "\""}

\* `.` : any character but the line feed.
IsDot(c) == c # "\n"

RECURSIVE SkipSpace(_, _)
\* \s* : the first position at or after p that holds no white space.
SkipSpace(line, p) ==
    IF p <= Len(line) /\ IsSpace(line[p]) THEN SkipSpace(line, p + 1) ELSE p

RECURSIVE PlainEnd(_, _)
\* [^\s\\'"]+ is greedy: the position after the run of plain characters.
PlainEnd(line, p) ==
    IF p <= Len(line) /\ IsPlain(line[p]) THEN PlainEnd(line, p + 1) ELSE p

RECURSIVE SingleClose(_, _)
\* '([^']*)' : the position of the closing quote, 0 when there is none.
SingleClose(line, p) ==
    IF p > Len(line) THEN 0
    ELSE IF line[p] = "'" THEN p
    ELSE SingleClose(line, p + 1)

RECURSIVE DoubleClose(_, _)
\* "((?:[^"\\]|\\.)*)" : the position of the closing quote, 0 when the body
\* does not parse (no closing quote, or a backslash followed by nothing or by
\* a line feed, which `.` does not match).
DoubleClose(line, p) ==
    IF p > Len(line) THEN 0
    ELSE IF line[p] = "\"" THEN p
    ELSE IF line[p] = "\\"
         THEN IF p + 1 <= Len(line) /\ IsDot(line[p + 1])
              THEN DoubleClose(line, p + 2)
              ELSE 0
    ELSE DoubleClose(line, p + 1)

RECURSIVE Unmeta(_)
\* METACHAR_PATTERN.replace_all(body, "$1"): a backslash before a dollar, a
\* backquote, a double quote, a backslash or a line feed is dropped (the
\* dollar and the backquote are not in Chars).
Unmeta(body) ==
    IF body = <<>> THEN <<>>
    ELSE IF body[1] = "\\" /\ Len(body) >= 2
            /\ body[2] \in {"\"", "\\", "\n"}
         THEN <<body[2]>> \o Unmeta(SubSeq(body, 3, Len(body)))
    ELSE <<body[1]>> \o Unmeta(Tail(body))

SplitOk(words) == [ok |-> TRUE, words |-> words]
SplitErr == [ok |-> FALSE, words |-> <<>>]

RECURSIVE SplitFrom(_, _, _, _)
\* The captures_iter loop of split from position p, with the words pushed so
\* far and the field being built.
SplitFrom(line, p, words, field) ==
    LET n == Len(line)
        q == SkipSpace(line, p)
        \* (\s|\z)? after a piece that ends before position r
        After(r, piece) ==
            IF r > n THEN SplitFrom(line, r, Append(words, field \o piece), <<>>)
            ELSE IF IsSpace(line[r])
                 THEN SplitFrom(line, r + 1, Append(words, field \o piece), <<>>)
            ELSE SplitFrom(line, r, words, field \o piece)
    IN  IF q > n THEN SplitOk(words)
        ELSE IF IsPlain(line[q])
             THEN LET r == PlainEnd(line, q)
                  IN  After(r, SubSeq(line, q, r - 1))
        ELSE IF line[q] = "'" /\ SingleClose(line, q + 1) # 0
             THEN LET j == SingleClose(line, q + 1)
                  IN  After(j + 1, SubSeq(line, q + 1, j - 1))
        ELSE IF line[q] = "\"" /\ DoubleClose(line, q + 1) # 0
             THEN LET j == DoubleClose(line, q + 1)
                  IN  After(j + 1, Unmeta(SubSeq(line, q + 1, j - 1)))
        ELSE IF line[q] = "\\"
             THEN IF q + 1 <= n /\ IsDot(line[q + 1])
                  THEN After(q + 2, <<line[q + 1]>>)
                  ELSE After(q + 1, <<"\\">>)
        ELSE SplitErr

\* shellwords::split(line): the words, or MismatchedQuotes.
Split(line) == SplitFrom(line, 1, <<>>, <<>>)

\* ------------------------------------------------------------------------
\* shellwords::escape and shellwords::join
\* ------------------------------------------------------------------------

\* [A-Za-z0-9_\-.,:/@\n]
IsSafe(c) == c \in {"a", "\n"}

RECURSIVE EscapePass(_)
\* ESCAPE_PATTERN.replace_all(input, "\\$1")
EscapePass(s) ==
    IF s = <<>> THEN <<>>
    ELSE (IF IsSafe(s[1]) THEN <<s[1]>> ELSE <<"\\", s[1]>>) \o EscapePass(Tail(s))

RECURSIVE LineFeedPass(_)
\* LINE_FEED.replace_all(output, "'\n'")
LineFeedPass(s) ==
    IF s = <<>> THEN <<>>
    ELSE (IF s[1] = "\n" THEN <<"'", "\n", "'">> ELSE <<s[1]>>) \o LineFeedPass(Tail(s))

\* shellwords::escape(input)
Escape(s) == IF Len(s) = 0 THEN <<"'", "'">> ELSE LineFeedPass(EscapePass(s))

\* shellwords::join(words): the escaped words, joined by one space.
Join(words) == JoinWith([i \in 1..Len(words) |-> Escape(words[i])], <<" ">>)

\* ------------------------------------------------------------------------
\* Paths, errors and Entry
\* ------------------------------------------------------------------------

\* A path is its text, or bytes that are no text (utf8 = FALSE).
\* path::PathBuf::from(String)
PathFrom(str) == [utf8 |-> TRUE, s |-> str]

\* path::Path::to_str
PathToStr(path) == IF path.utf8 THEN Some(path.s) ELSE None

RECURSIVE EscapeDebug(_)
\* char::escape_debug over the characters of a string.
EscapeDebug(s) ==
    IF s = <<>> THEN <<>>
    ELSE (IF s[1] = "\n" THEN <<"\\", "n">>
          ELSE IF s[1] \in {"\"", "'", "\\"} THEN <<"\\", s[1]>>
          ELSE <<s[1]>>) \o EscapeDebug(Tail(s))

\* format!("{:?}", string): the escaped text between double quotes.
DebugFmt(s) == <<"\"">> \o EscapeDebug(s) \o <<"\"">>

\* Result<T>: Ok(value), or an error of the crate: an io::Error (Io), a
\* serde_json::Error (Json) or a message (Msg). The fixed text of a message
\* is one element of msg, the formatted argument follows character by
\* character.
Ok(v) == [ok |-> TRUE, kind |-> "Ok", msg |-> <<>>, val |-> v]
Err(kind, msg) == [ok |-> FALSE, kind |-> kind, msg |-> msg, val |-> {}]

IoError == Err("Io", <<>>)
JsonError == Err("Json", <<>>)

\* format!("Failed to convert to string {:?}", path).into()
PathMessage(path) == <<"Failed to convert to string ">> \o DebugFmt(path.s)

\* format!("Quotes are mismatch in {:?}", command).into()
QuoteMessage(command) == <<"Quotes are mismatch in ">> \o DebugFmt(command)

\* struct Entry
Entry(directory, file, command, output) ==
    [directory |-> directory, file |-> file, command |-> command, output |-> output]

\* impl PartialEq for Entry: directory, file and command; output is not
\* compared.
EntryEq(a, b) ==
    /\ a.directory = b.directory
    /\ a.file = b.file
    /\ a.command = b.command

\* #[derive(Hash)] on Entry: every field is fed to the hasher, output
\* included. The hasher is taken as collision free on what it is fed.
EntryHash(e) == <<e.directory, e.file, e.command, e.output>>

\* HashSet<Entry>::contains: an element of the same hash that is equal.
Contains(set, e) == \E x \in set : EntryHash(x) = EntryHash(e) /\ EntryEq(x, e)

\* HashSet<Entry>::insert: the set keeps the element it has when it contains
\* one of the same hash that is equal.
Insert(set, e) == IF Contains(set, e) THEN set ELSE set \cup {e}

\* ------------------------------------------------------------------------
\* inner::GenericEntry and its JSON form
\* ------------------------------------------------------------------------

\* GenericEntry::StringEntry { directory, file, command, output }
StringEntry(directory, file, command, output) ==
    [variant |-> "StringEntry", directory |-> directory, file |-> file,
     command |-> command, arguments |-> <<>>, output |-> output]

\* GenericEntry::ArrayEntry { directory, file, arguments, output }
ArrayEntry(directory, file, arguments, output) ==
    [variant |-> "ArrayEntry", directory |-> directory, file |-> file,
     command |-> <<>>, arguments |-> arguments, output |-> output]

\* The value of a field of a JSON object: absent, null, a number, a string
\* (s) or an array of strings (a).
JAbsent == [k |-> "absent", s |-> <<>>, a |-> <<>>]
JNull == [k |-> "null", s |-> <<>>, a |-> <<>>]
JNum == [k |-> "num", s |-> <<>>, a |-> <<>>]
JStr(str) == [k |-> "str", s |-> str, a |-> <<>>]
JArr(strs) == [k |-> "arr", s |-> <<>>, a |-> strs]

\* An element of a JSON array: an object with the five fields a record can
\* have, or a value that is no object.
JObject(directory, file, command, arguments, output) ==
    [isobj |-> TRUE, directory |-> directory, file |-> file, command |-> command,
     arguments |-> arguments, output |-> output]
JScalar ==
    [isobj |-> FALSE, directory |-> JAbsent, file |-> JAbsent, command |-> JAbsent,
     arguments |-> JAbsent, output |-> JAbsent]

\* Serialize for Option<String> without the skip: null for None.
SerOutputNull(output) == IF output = None THEN JNull ELSE JStr(output[1])

\* Serialize for Option<String> under skip_serializing_if = "Option::is_none":
\* no field for None.
SerOutput(output) == IF output = None THEN JAbsent ELSE JStr(output[1])

\* #[derive(Serialize)] #[serde(untagged)]: the fields of the variant, and no
\* tag.
Serialize(g) ==
    IF g.variant = "StringEntry"
    THEN JObject(JStr(g.directory), JStr(g.file), JStr(g.command), JAbsent,
                 SerOutput(g.output))
    ELSE JObject(JStr(g.directory), JStr(g.file), JAbsent, JArr(g.arguments),
                 SerOutput(g.output))

\* Deserialize for Option<String>: a string, or None for null or no field.
OutputOk(j) == j.k \in {"absent", "null", "str"}
DeOutput(j) == IF j.k = "str" THEN Some(j.s) ELSE None

\* The object has what the StringEntry variant needs (other fields are
\* ignored).
MatchesString(j) ==
    /\ j.isobj
    /\ j.directory.k = "str"
    /\ j.file.k = "str"
    /\ j.command.k = "str"
    /\ OutputOk(j.output)

\* The object has what the ArrayEntry variant needs.
MatchesArray(j) ==
    /\ j.isobj
    /\ j.directory.k = "str"
    /\ j.file.k = "str"
    /\ j.arguments.k = "arr"
    /\ OutputOk(j.output)

\* The variants tried in the other order, ArrayEntry first.
DeserializeArrayFirst(j) ==
    IF MatchesArray(j)
    THEN Ok(ArrayEntry(j.directory.s, j.file.s, j.arguments.a, DeOutput(j.output)))
    ELSE IF MatchesString(j)
    THEN Ok(StringEntry(j.directory.s, j.file.s, j.command.s, DeOutput(j.output)))
    ELSE JsonError

\* #[derive(Deserialize)] #[serde(untagged)]: the variants are tried in the
\* order of their declaration, StringEntry first; the first that fits is
\* taken, and an element that fits none is an error.
Deserialize(j) ==
    IF MatchesString(j)
    THEN Ok(StringEntry(j.directory.s, j.file.s, j.command.s, DeOutput(j.output)))
    ELSE IF MatchesArray(j)
    THEN Ok(ArrayEntry(j.directory.s, j.file.s, j.arguments.a, DeOutput(j.output)))
    ELSE JsonError

\* ------------------------------------------------------------------------
\* The backing file
\* ------------------------------------------------------------------------

\* No file at the path.
Absent == [k |-> "absent", items |-> <<>>]
\* Bytes that are no JSON.
Text == [k |-> "text", items |-> <<>>]
\* What a write that failed left after the truncation: a proper prefix of a
\* JSON array, which is no JSON.
Partial == [k |-> "partial", items |-> <<>>]
\* A JSON document that is one object, not an array.
ObjectDoc(j) == [k |-> "object", items |-> <<j>>]
\* A JSON document that is an array.
ArrayDoc(items) == [k |-> "array", items |-> items]

\* ------------------------------------------------------------------------
\* inner::from, inner::into, inner::load
\* ------------------------------------------------------------------------

\* inner::from with the tokens of the string form joined by spaces as they
\* are, not by shellwords::join.
FromPlainJoin(entry, command_as_array) ==
    IF PathToStr(entry.directory) = None THEN Err("Msg", PathMessage(entry.directory))
    ELSE IF PathToStr(entry.file) = None THEN Err("Msg", PathMessage(entry.file))
    ELSE IF entry.output # None /\ PathToStr(entry.output[1]) = None
         THEN Err("Msg", PathMessage(entry.output[1]))
    ELSE LET directory == PathToStr(entry.directory)[1]
             file == PathToStr(entry.file)[1]
             output == IF entry.output = None THEN None
                       ELSE Some(PathToStr(entry.output[1])[1])
         IN  IF command_as_array
             THEN Ok(ArrayEntry(directory, file, entry.command, output))
             ELSE Ok(StringEntry(directory, file, JoinWith(entry.command, <<" ">>),
                                 output))

\* inner::from: directory, file and output become text in this order, the
\* first that is no text is the error; then the variant the format asks for.
From(entry, command_as_array) ==
    IF PathToStr(entry.directory) = None THEN Err("Msg", PathMessage(entry.directory))
    ELSE IF PathToStr(entry.file) = None THEN Err("Msg", PathMessage(entry.file))
    ELSE IF entry.output # None /\ PathToStr(entry.output[1]) = None
         THEN Err("Msg", PathMessage(entry.output[1]))
    ELSE LET directory == PathToStr(entry.directory)[1]
             file == PathToStr(entry.file)[1]
             output == IF entry.output = None THEN None
                       ELSE Some(PathToStr(entry.output[1])[1])
         IN  IF command_as_array
             THEN Ok(ArrayEntry(directory, file, entry.command, output))
             ELSE Ok(StringEntry(directory, file, Join(entry.command), output))

\* output.clone().map(|string| path::PathBuf::from(string))
OutputPath(output) == IF output = None THEN None ELSE Some(PathFrom(output[1]))

\* inner::into without the output of the record.
IntoDropsOutput(g) ==
    IF g.variant = "ArrayEntry"
    THEN Ok(Entry(PathFrom(g.directory), PathFrom(g.file), g.arguments, None))
    ELSE LET arguments == Split(g.command)
         IN  IF arguments.ok
             THEN Ok(Entry(PathFrom(g.directory), PathFrom(g.file), arguments.words,
                           None))
             ELSE Err("Msg", QuoteMessage(g.command))

\* inner::into
Into(g) ==
    IF g.variant = "ArrayEntry"
    THEN Ok(Entry(PathFrom(g.directory), PathFrom(g.file), g.arguments,
                  OutputPath(g.output)))
    ELSE LET arguments == Split(g.command)
         IN  IF arguments.ok
             THEN Ok(Entry(PathFrom(g.directory), PathFrom(g.file), arguments.words,
                           OutputPath(g.output)))
             ELSE Err("Msg", QuoteMessage(g.command))

RECURSIVE DeserializeAll(_, _)
\* Deserialize for Vec<GenericEntry>: element by element, the first error
\* ends it.
DeserializeAll(items, done) ==
    IF items = <<>> THEN Ok(done)
    ELSE LET r == Deserialize(Head(items))
         IN  IF r.ok THEN DeserializeAll(Tail(items), Append(done, r.val)) ELSE r

\* inner::load that takes a missing file for an empty database.
InnerLoadMissingIsEmpty(f) ==
    IF f.k = "absent" THEN Ok(<<>>)
    ELSE IF f.k = "array" THEN DeserializeAll(f.items, <<>>)
    ELSE JsonError

\* inner::load: open for reading, then serde_json::from_reader.
InnerLoad(f) ==
    IF f.k = "absent" THEN IoError
    ELSE IF f.k = "array" THEN DeserializeAll(f.items, <<>>)
    ELSE JsonError

\* ------------------------------------------------------------------------
\* Database::load and the conversion pass of Database::save
\* ------------------------------------------------------------------------

RECURSIVE CollectEntries(_, _)
\* .map(inner::into).collect::<Result<Entries>>(): the entries are inserted
\* one by one, the first error ends the pass.
CollectEntries(generic, set) ==
    IF generic = <<>> THEN Ok(set)
    ELSE LET r == Into(Head(generic))
         IN  IF r.ok THEN CollectEntries(Tail(generic), Insert(set, r.val)) ELSE r

RECURSIVE ErrorMessages(_)
\* .map(inner::into).filter_map(Result::err).map(to_string).collect()
ErrorMessages(generic) ==
    IF generic = <<>> THEN <<>>
    ELSE LET r == Into(Head(generic))
         IN  (IF r.ok THEN <<>> ELSE <<r.msg>>) \o ErrorMessages(Tail(generic))

\* Database::load that returns the first error of the first pass.
LoadOpFirstError(f) ==
    LET generic_entries == InnerLoad(f)
    IN  IF ~generic_entries.ok THEN generic_entries
        ELSE CollectEntries(generic_entries.val, {})

\* Database::load on a file of content f.
LoadOp(f) ==
    LET generic_entries == InnerLoad(f)
    IN  IF ~generic_entries.ok THEN generic_entries
        ELSE LET entries == CollectEntries(generic_entries.val, {})
             IN  IF ~entries.ok
                 THEN Err("Msg", JoinWith(ErrorMessages(generic_entries.val),
                                          <<", ">>))
                 ELSE entries

RECURSIVE CollectGeneric(_, _, _)
\* .map(|entry| inner::from(entry, format)).collect::<Result<Vec<_>>>() over
\* the entries in the order the set yields them.
CollectGeneric(order, command_as_array, done) ==
    IF order = <<>> THEN Ok(done)
    ELSE LET r == From(Head(order), command_as_array)
         IN  IF r.ok
             THEN CollectGeneric(Tail(order), command_as_array, Append(done, r.val))
             ELSE r

\* serde_json::ser::to_writer_pretty: the array of the serialized records.
SerializeAll(generic) == ArrayDoc([i \in 1..Len(generic) |-> Serialize(generic[i])])

\* The orders in which a set can yield its elements.
Orders(set) ==
    {o \in [1..Cardinality(set) -> set] : \A i, j \in DOMAIN o : i # j => o[i] # o[j]}

\* ------------------------------------------------------------------------
\* The inputs, by weight
\* ------------------------------------------------------------------------

GoodDirectory == PathFrom(<<"d">>)
GoodFile == PathFrom(<<"f">>)
GoodOutput == PathFrom(<<"o">>)
\* A path whose bytes are no text.
BadPath == [utf8 |-> FALSE, s |-> <<"x">>]

\* The strings of length n over a set of characters.
StringsOver(chars, n) == IF n < 0 THEN {} ELSE [1..n -> chars]

RECURSIVE CmdsOver(_, _)
\* The commands of size k over a set of characters: one per token and one
\* per character.
CmdsOver(chars, k) ==
    IF k < 0 THEN {}
    ELSE IF k = 0 THEN {<<>>}
    ELSE UNION {LET rest == CmdsOver(chars, k - 1 - n)
                IN  {<<t>> \o r : t \in StringsOver(chars, n), r \in rest} :
                n \in 0..(k - 1)}

\* The commands of size k of the entries passed to save.
CmdsOfSize(k) == CmdsOver(Chars, k)

\* The characters of the tokens of an `arguments` array in a file.
ArgChars == {"a", " "}

\* The `arguments` arrays of weight c in a file: the size of the command,
\* its first token free.
ArgsOfWeight(c) ==
    IF c < 0 THEN {}
    ELSE IF c = 0 THEN CmdsOver(ArgChars, 0) \cup CmdsOver(ArgChars, 1)
    ELSE CmdsOver(ArgChars, c + 1)

\* <<value, weight>> of the directory, the file and the output of an entry.
DirectoryChoices == {<<GoodDirectory, 0>>, <<BadPath, 1>>}
FileChoices == {<<GoodFile, 0>>, <<BadPath, 1>>}
OutputChoices == {<<None, 0>>, <<Some(GoodOutput), 0>>, <<Some(BadPath), 1>>}

\* The entries of weight w: one, the size of the command, and one per path
\* that is no text.
EntriesOfWeight(w) ==
    UNION {{Entry(d[1], f[1], c, o[1]) : c \in CmdsOfSize(w - 1 - d[2] - f[2] - o[2])} :
           d \in DirectoryChoices, f \in FileChoices, o \in OutputChoices}

RECURSIVE EntrySetsWithin(_)
\* The entry sets of total weight at most w.
EntrySetsWithin(w) ==
    {{}} \cup
    UNION {LET rest == EntrySetsWithin(w - k)
           IN  UNION {{set \cup {e} : set \in rest} : e \in EntriesOfWeight(k)} :
           k \in 1..w}

\* <<command field, arguments field>> of a JSON object, of weight c.
CommandFields(c) ==
    {<<JStr(l), JAbsent>> : l \in StringsOver(Chars, c)}
    \cup {<<JAbsent, JArr(a)>> : a \in ArgsOfWeight(c)}
    \cup (IF c = 1 THEN {<<JAbsent, JAbsent>>} ELSE {})
    \cup {<<JNum, JArr(a)>> : a \in ArgsOfWeight(c - 1)}
    \cup {<<JStr(l), JNum>> : l \in StringsOver(Chars, c - 1)}
    \cup UNION {{<<JStr(l), JArr(a)>> : l \in StringsOver(Chars, n), a \in ArgsOfWeight(c - 1 - n)} :
                n \in 0..(c - 1)}

\* <<value, weight>> of the directory, file and output fields of a JSON object.
JDirectoryChoices == {<<JStr(<<"d">>), 0>>, <<JAbsent, 1>>}
JFileChoices == {<<JStr(<<"f">>), 0>>, <<JNum, 1>>}
JOutputChoices == {<<JAbsent, 0>>, <<JStr(<<"o">>), 0>>, <<JNull, 1>>, <<JNum, 1>>}

\* The array elements of weight w.
ElementsOfWeight(w) ==
    (IF w = 1 THEN {JScalar} ELSE {})
    \cup UNION {{JObject(d[1], f[1], c[1], c[2], o[1]) :
                    c \in CommandFields(w - 1 - d[2] - f[2] - o[2])} :
                d \in JDirectoryChoices, f \in JFileChoices, o \in JOutputChoices}

RECURSIVE ItemsWithin(_)
\* The sequences of array elements of total weight at most w.
ItemsWithin(w) ==
    {<<>>} \cup
    UNION {LET rest == ItemsWithin(w - k)
           IN  {<<j>> \o r : j \in ElementsOfWeight(k), r \in rest} : k \in 1..w}

\* br#"{ "file": "string" }"#
NotExpectedJson == ObjectDoc(JObject(JAbsent, JStr(<<"s">>), JAbsent, JAbsent, JAbsent))

\* A command with an opening quote and no closing one, as in
\* test_load_path_problem.
PathProblem ==
    ArrayDoc(<<JObject(JStr(<<" ">>), JStr(<<"f">>), JStr(<<"a", " ", "\"", "a">>),
                       JAbsent, JAbsent)>>)

\* What the tests write to the file.
TestContents == {Text, NotExpectedJson, ArrayDoc(<<>>), PathProblem}

\* ------------------------------------------------------------------------
\* The state: one Database and its backing file
\* ------------------------------------------------------------------------

VARIABLES
    file,              \* the content of the file at Database::path
    entries,           \* the entry set the caller passes to save
    command_as_array,  \* DatabaseFormat::command_as_array passed to save
    op,                \* the last call: "none", "new", "load", "save", "write"
    result,            \* what the last load or save returned
    saved,             \* the file is as the last save wrote it in full
    before,            \* the kind of content the file had when save was last called
    loaded,            \* what load returned since the file last changed
    reloaded           \* the last load came after a load of the same content

vars == <<file, entries, command_as_array, op, result, saved, before, loaded, reloaded>>

\* Before any load or save.
NoResult == [ok |-> TRUE, kind |-> "None", msg |-> <<>>, val |-> {}]

\* A caller with an entry set and a format, and no file yet.
Init ==
    /\ file = Absent
    /\ entries \in EntrySetsWithin(MaxSize)
    /\ command_as_array \in BOOLEAN
    /\ op = "none"
    /\ result = NoResult
    /\ saved = FALSE
    /\ before = "none"
    /\ loaded = None
    /\ reloaded = FALSE

\* A caller that only loads, on a file of any content.
InitLoad ==
    /\ \/ file \in {Absent, Text, NotExpectedJson, PathProblem, ArrayDoc(<<>>)}
       \/ \E k \in 1..MaxSize :
             \E j \in ElementsOfWeight(k) :
                \E rest \in ItemsWithin(MaxSize - k) :
                   file = ArrayDoc(<<j>> \o rest)
    /\ entries = {}
    /\ command_as_array = FALSE
    /\ op = "none"
    /\ result = NoResult
    /\ saved = FALSE
    /\ before = "none"
    /\ loaded = None
    /\ reloaded = FALSE

\* Database::new: the path is kept, nothing is read or written.
New ==
    /\ op' = "new"
    /\ UNCHANGED <<file, entries, command_as_array, result, saved, before, loaded, reloaded>>

\* Database::load
Load ==
    /\ op' = "load"
    /\ result' = LoadOp(file)
    /\ loaded' = Some(result')
    /\ reloaded' = (loaded # None)
    /\ UNCHANGED <<file, entries, command_as_array, saved, before>>

\* Database::save that opens (and truncates) the file before it converts the
\* entries.
SaveOpensFirst ==
    /\ op' = "save"
    /\ before' = file.k
    /\ loaded' = None
    /\ reloaded' = FALSE
    /\ UNCHANGED <<entries, command_as_array>>
    /\ \E order \in Orders(entries) :
          LET generic_entries == CollectGeneric(order, command_as_array, <<>>)
          IN  \/ /\ result' = IoError
                 /\ UNCHANGED <<file, saved>>
              \/ /\ ~generic_entries.ok
                 /\ result' = generic_entries
                 /\ file' = Partial
                 /\ saved' = FALSE
              \/ /\ generic_entries.ok
                 /\ result' = JsonError
                 /\ file' = Partial
                 /\ saved' = FALSE
              \/ /\ generic_entries.ok
                 /\ result' = Ok({})
                 /\ file' = SerializeAll(generic_entries.val)
                 /\ saved' = TRUE

\* Database::save that writes the document aside and replaces the file only
\* once the write is done.
SaveReplaces ==
    /\ op' = "save"
    /\ before' = file.k
    /\ loaded' = None
    /\ reloaded' = FALSE
    /\ UNCHANGED <<entries, command_as_array>>
    /\ \E order \in Orders(entries) :
          LET generic_entries == CollectGeneric(order, command_as_array, <<>>)
          IN  IF ~generic_entries.ok
              THEN /\ result' = generic_entries
                   /\ UNCHANGED <<file, saved>>
              ELSE \/ /\ result' = IoError
                      /\ UNCHANGED <<file, saved>>
                   \/ /\ result' = JsonError
                      /\ UNCHANGED <<file, saved>>
                   \/ /\ result' = Ok({})
                      /\ file' = SerializeAll(generic_entries.val)
                      /\ saved' = TRUE

\* Database::save that opens the file without truncate: the records are
\* written after the ones an array in the file has.
SaveAppends ==
    /\ op' = "save"
    /\ before' = file.k
    /\ loaded' = None
    /\ reloaded' = FALSE
    /\ UNCHANGED <<entries, command_as_array>>
    /\ \E order \in Orders(entries) :
          LET generic_entries == CollectGeneric(order, command_as_array, <<>>)
          IN  IF ~generic_entries.ok
              THEN /\ result' = generic_entries
                   /\ UNCHANGED <<file, saved>>
              ELSE \/ /\ result' = IoError
                      /\ UNCHANGED <<file, saved>>
                   \/ /\ result' = JsonError
                      /\ file' = Partial
                      /\ saved' = FALSE
                   \/ /\ result' = Ok({})
                      /\ file' = IF file.k = "array"
                                 THEN ArrayDoc(file.items
                                               \o SerializeAll(generic_entries.val).items)
                                 ELSE SerializeAll(generic_entries.val)
                      /\ saved' = TRUE

\* Database::save: every entry is converted, in the order the set yields
\* them; then inner::save opens the file (created when missing, truncated)
\* and writes the document. The open and the write can each fail.
Save ==
    /\ op' = "save"
    /\ before' = file.k
    /\ loaded' = None
    /\ reloaded' = FALSE
    /\ UNCHANGED <<entries, command_as_array>>
    /\ \E order \in Orders(entries) :
          LET generic_entries == CollectGeneric(order, command_as_array, <<>>)
          IN  IF ~generic_entries.ok
              THEN /\ result' = generic_entries
                   /\ UNCHANGED <<file, saved>>
              ELSE \/ /\ result' = IoError
                      /\ UNCHANGED <<file, saved>>
                   \/ /\ result' = JsonError
                      /\ file' = Partial
                      /\ saved' = FALSE
                   \/ /\ result' = Ok({})
                      /\ file' = SerializeAll(generic_entries.val)
                      /\ saved' = TRUE

\* TestFile::write: the file is created or truncated and given a content.
Write ==
    /\ op' = "write"
    /\ file' \in TestContents
    /\ saved' = FALSE
    /\ loaded' = None
    /\ reloaded' = FALSE
    /\ UNCHANGED <<entries, command_as_array, result, before>>

Next == New \/ Load \/ Save \/ Write

Spec == Init /\ [][Next]_vars

NextLoad == New \/ Load

SpecLoad == InitLoad /\ [][NextLoad]_vars

\* ------------------------------------------------------------------------
\* Properties
\* ------------------------------------------------------------------------

\* Every path of every entry is text.
Representable(set) ==
    \A e \in set :
        /\ e.directory.utf8
        /\ e.file.utf8
        /\ e.output # None => e.output[1].utf8

\* No entry has a command without tokens.
NonEmptyCommands(set) == \A e \in set : e.command # <<>>

\* The elements of the array in the file.
Items == IF file.k = "array" THEN file.items ELSE <<>>

\* The file is an array all of whose elements have one of the two shapes.
WellShaped ==
    /\ file.k = "array"
    /\ \A i \in DOMAIN file.items : MatchesString(file.items[i]) \/ MatchesArray(file.items[i])

\* The entry a record of the file stands for, given its tokens.
EntryOf(j, tokens) ==
    Entry(PathFrom(j.directory.s), PathFrom(j.file.s), tokens,
          IF j.output.k = "str" THEN Some(PathFrom(j.output.s)) ELSE None)

\* The record has a string `command`: its tokens are the words of the command.
HasCommand(j) == j.isobj /\ j.command.k = "str"
\* The record has an `arguments` array.
HasArguments(j) == j.isobj /\ j.arguments.k = "arr"

\* The tokens of a record that has a shape: the words of its command when it
\* has one, else its arguments.
TokensOf(j) == IF HasCommand(j) THEN Split(j.command.s).words ELSE j.arguments.a

\* The record cannot be converted: it has a string command whose quotes do
\* not match.
Malformed(j) == HasCommand(j) /\ ~Split(j.command.s).ok

RECURSIVE Unescape(_)
\* The text a debug-escaped text stands for.
Unescape(s) ==
    IF s = <<>> THEN <<>>
    ELSE IF s[1] = "\\" /\ Len(s) >= 2
         THEN <<IF s[2] = "n" THEN "\n" ELSE s[2]>> \o Unescape(SubSeq(s, 3, Len(s)))
    ELSE <<s[1]>> \o Unescape(Tail(s))

\* The command text a conversion message quotes: what stands between the
\* double quotes after the fixed text.
QuotedText(message) == Unescape(SubSeq(message, 3, Len(message) - 1))

\* C1: after a load that succeeds, no two entries of the returned set share
\* directory, file and command; and entries that are equal have the same
\* hash.
C1_DedupOnLoad ==
    (op = "load" /\ result.ok) =>
        \A a, b \in result.val :
            EntryEq(a, b) => (a = b /\ EntryHash(a) = EntryHash(b))

\* C2: with every path text, a save in the array format fails only on the
\* file, never on an entry; and a load of the file as that save wrote it
\* returns the saved set, every entry with the output it was saved with.
C2_RoundTripArray ==
    (command_as_array /\ Representable(entries) /\ NonEmptyCommands(entries)) =>
        /\ op = "save" => result.kind # "Msg"
        /\ (op = "load" /\ saved) => result = Ok(entries)

\* C2 happens: two entries, one with an output and one without, were saved
\* as arrays and loaded back.
C2_Witness ==
    /\ op = "load" /\ saved /\ command_as_array
    /\ Representable(entries) /\ NonEmptyCommands(entries)
    /\ Cardinality(entries) = 2
    /\ \E a, b \in entries : a.output = None /\ b.output # None
    /\ result.ok

\* A token with two characters that need quoting.
Awkward(token) == Len(token) = 2 /\ token[1] # "a" /\ token[2] # "a"

\* C3: with every path text, a save in the string format fails only on the
\* file; a load of the file as that save wrote it returns the saved set with
\* its outputs; and the tokens of every command come back from split after
\* join.
C3_RoundTripString ==
    (~command_as_array /\ Representable(entries) /\ NonEmptyCommands(entries)) =>
        /\ \A e \in entries : Split(Join(e.command)) = SplitOk(e.command)
        /\ op = "save" => result.kind # "Msg"
        /\ (op = "load" /\ saved) => result = Ok(entries)

\* C3 happens: a command with a token made of white space, quotes or
\* backslashes was saved as a string and loaded back.
C3_Witness ==
    /\ op = "load" /\ saved /\ ~command_as_array
    /\ Representable(entries) /\ NonEmptyCommands(entries)
    /\ \E e \in entries : \E i \in DOMAIN e.command : Awkward(e.command[i])
    /\ result.ok

\* The positions of the records of the file that cannot be converted.
MalformedAt == {i \in DOMAIN Items : Malformed(Items[i])}

\* The conversion messages of the malformed records, in document order.
ExpectedMessages ==
    LET bad == SelectSeq(Items, Malformed)
    IN  [i \in DOMAIN bad |-> <<"Quotes are mismatch in ">> \o DebugFmt(bad[i].command.s)]

\* C4: on a file whose records all have a shape, load returns a set exactly
\* when no record is malformed, and the set then holds the entry of every
\* record; otherwise load fails with the messages of exactly the malformed
\* records, in document order, joined by ", ", each quoting the command of
\* its record.
C4_LoadAllOrNothing ==
    (op = "load" /\ WellShaped) =>
        /\ result.ok <=> MalformedAt = {}
        /\ result.ok =>
              /\ \A i \in DOMAIN Items :
                    \E e \in result.val : EntryEq(e, EntryOf(Items[i], TokensOf(Items[i])))
              /\ \A e \in result.val :
                    \E i \in DOMAIN Items : e = EntryOf(Items[i], TokensOf(Items[i]))
        /\ ~result.ok =>
              /\ result.kind = "Msg"
              /\ result.val = {}
              /\ result.msg = JoinWith(ExpectedMessages, <<", ">>)
              /\ \A i \in DOMAIN ExpectedMessages :
                    QuotedText(ExpectedMessages[i]) = SelectSeq(Items, Malformed)[i].command.s

\* C4 happens: a load failed on a file with two malformed records with
\* different commands.
C4_Witness ==
    /\ op = "load" /\ WellShaped /\ ~result.ok
    /\ Cardinality(MalformedAt) = 2
    /\ \E i, k \in MalformedAt : Items[i].command.s # Items[k].command.s

\* Some entry of the set cannot be converted under the format.
ConversionFails == \E e \in entries : ~From(e, command_as_array).ok

\* C5: a save of a set with an entry that cannot be converted returns the
\* error of such an entry and leaves the file as it was.
C5_SaveAtomic ==
    [][(op' = "save" /\ ConversionFails) =>
          /\ file' = file
          /\ saved' = saved
          /\ ~result'.ok
          /\ \E e \in entries : ~From(e, command_as_array).ok
                                 /\ result' = From(e, command_as_array)]_vars

\* C5 happens: a save failed on an entry while the file held a document,
\* which is still there.
C5_Witness ==
    /\ op = "save" /\ ConversionFails
    /\ result.kind = "Msg"
    /\ before = "array" /\ file = PathProblem
    /\ \E e \in entries : From(e, command_as_array).ok

\* C6: load fails with an I/O error when the file cannot be opened, with a
\* format error when the file is no JSON, no array, or an array with an
\* element of neither shape (whatever its other records are); it returns
\* the empty set for the empty array.
C6_FatalLoadErrors ==
    op = "load" =>
        /\ file.k = "absent" => result = IoError
        /\ file.k \in {"text", "partial", "object"} => result = JsonError
        /\ (file.k = "array" /\ ~WellShaped) => result = JsonError
        /\ file = ArrayDoc(<<>>) => result = Ok({})

\* C6 happens: load failed with a format error on an array whose first
\* record is malformed and whose second element has no shape.
C6_Witness ==
    /\ op = "load" /\ file.k = "array" /\ Len(file.items) = 2
    /\ Malformed(file.items[1])
    /\ ~file.items[2].isobj
    /\ result = JsonError

Written(j, e, as_array) ==
    /\ j.isobj
    /\ j.directory = JStr(e.directory.s)
    /\ j.file = JStr(e.file.s)
    /\ IF as_array
       THEN j.arguments = JArr(e.command) /\ j.command = JAbsent
       ELSE j.command = JStr(Join(e.command)) /\ j.arguments = JAbsent
    /\ j.output.k # "null"
    /\ (j.output = JAbsent) <=> (e.output = None)
    /\ e.output # None => j.output = JStr(e.output[1].s)

\* C8: the file a save wrote has one record per entry, all of the shape the
\* format asks for, with the tokens (or their join) of the entry, and an
\* output field exactly for the entries that have an output, never null.
C8_SaveShape ==
    saved =>
        /\ file.k = "array"
        /\ \E order \in Orders(entries) :
              /\ Len(file.items) = Len(order)
              /\ \A i \in DOMAIN order :
                    Written(file.items[i], order[i], command_as_array)

\* C8 happens: a save in the string format wrote two records, one with an
\* output and one without.
C8_Witness ==
    /\ saved /\ op = "save" /\ ~command_as_array
    /\ Len(Items) = 2
    /\ \E i, k \in DOMAIN Items : Items[i].output = JAbsent /\ Items[k].output.k = "str"

\* C9: a save whose write fails leaves the file truncated, with no document
\* a load could return; a save whose open fails leaves the file as it was;
\* and a load of the truncated file fails.
C9_TruncateThenWrite ==
    [][/\ (op' = "save" /\ result'.kind = "Json") =>
             (file' = Partial /\ ~saved' /\ ~LoadOp(file').ok)
       /\ (op' = "save" /\ result'.kind = "Io") => (file' = file /\ saved' = saved)
       /\ (op' = "load" /\ file = Partial) => ~result'.ok]_vars

\* C9 happens: a load finds no entry set after a save whose write failed,
\* on a file that held a JSON array when save was called.
C9_Witness ==
    /\ op = "load" /\ file = Partial /\ ~result.ok
    /\ before = "array"
    /\ entries # {} /\ ~ConversionFails

\* The documents a successful save of a set under a format can write: the
\* records of the entries, in any order.
SavedFiles(set, as_array) ==
    {ArrayDoc([i \in DOMAIN order |-> Serialize(From(order[i], as_array).val)]) :
        order \in Orders(set)}

\* C10: new and load leave the file as it is; a load after a load, with no
\* save or write in between, returns the same; after a save that succeeds
\* the file is a document of the saved set and format alone, and every such
\* document loads to the same result.
C10_NoCarriedState ==
    [][/\ op' \in {"new", "load"} => file' = file
       /\ (op' = "load" /\ loaded # None) => result' = loaded[1]
       /\ (op' = "save" /\ result'.ok) =>
             /\ file' \in SavedFiles(entries, command_as_array)
             /\ \A d \in SavedFiles(entries, command_as_array) :
                   LoadOp(d) = LoadOp(file')]_vars

\* C10 happens: a second load in a row, of a file a save wrote over a
\* document that was there.
C10_Witness ==
    /\ op = "load" /\ saved /\ result.ok
    /\ before = "array"
    /\ Cardinality(entries) = 2
    /\ reloaded /\ loaded = Some(result)

====
